---- MODULE Spec2Model ----
(***************************************************************************)
(* The submission pipeline of the lovelace engine: engine/api.py.          *)
(*                                                                         *)
(* SubmitResource.on_post is modelled one step per statement group that    *)
(* touches the working directory shared by every request (the staged code  *)
(* file and the staged resource files), for a fixed set of requests whose  *)
(* handlers may interleave: on_post takes no lock.  An exception leaving   *)
(* on_post ends the handler where it is raised.  The judge process itself  *)
(* starts, constructs SubmitResource (which launches the container),       *)
(* serves, and exits.                                                      *)
(***************************************************************************)
EXTENDS Integers, Sequences, FiniteSets, TLC

\* Largest multiplicity of a test case type in the modelled problem modules.
MaxMult == 2

\* The requests in flight; each is handled by one call of on_post.
Reqs == {"r1", "r2"}

None == "None"

\* Python truthiness of an optional string (`if not code`, `if test_case_resource`).
Truthy(s) == s # None /\ s # ""

(***************************************************************************)
(* Request payloads (req.media).                                           *)
(***************************************************************************)
RecognizedLanguages == {"python3", "javascript", "julia", "c"}

Languages == RecognizedLanguages \cup {"brainfuck"}

\* What a submitted program does on a case when its own interpreter runs it.
Behaviours == {"reference", "print0", "silent", "garbage", "crash"}

\* The base64 text of a source: <<>> is the empty string, <<"!">> a text that
\* does not decode.
B64Encode(source) == <<"b64", source>>

CodeTexts == {<<>>, <<"!">>} \cup {B64Encode(b) : b \in Behaviours}

\* Problem keys as character sequences, so that replace('-', '_') acts on them.
ProblemKeys ==
    { <<"s", "-", "t">>, <<"d">>, <<"b">>, <<"e">>, <<"m">>, <<"x", "-", "y">> }

\* A source is written in the language its tag names.  The runner never looks at
\* the tag (api.py:106), so every source tagged with another language than python3
\* meets the same interpreter error: one behaviour stands for all of them.
Payloads ==
    { p \in [code : CodeTexts, language : Languages, problem : ProblemKeys] :
        p.language = "python3" \/ p.code = B64Encode("reference") }
    \cup [language : {"python3"}, problem : ProblemKeys]

(***************************************************************************)
(* The problem modules (problems/<name>.py) and the host's resources/.     *)
(***************************************************************************)
Type(name, mult, a, dataset) ==
    [test_name |-> name, multiplicity |-> mult, a |-> a, dataset |-> dataset]

ProblemModules == { <<"s", "_", "t">>, <<"d">>, <<"b">>, <<"e">>, <<"m">> }

TEST_CASE_TYPE_ENUM(problem_name) ==
    CASE problem_name = <<"s", "_", "t">> ->
            << Type("zero", 1, "0", None), Type("general", MaxMult, "1", None) >>
      [] problem_name = <<"d">> ->
            << Type("quiet", 1, "", None), Type("ds", MaxMult, "1", "data.csv") >>
      [] problem_name = <<"b">> ->
            << Type("zero", 1, "0", None) >>
      [] problem_name = <<"m">> ->
            << Type("lost", 1, "1", "lost.csv"), Type("zero", 1, "0", None) >>
      [] OTHER -> << >>

RESOURCES(problem_name) ==
    CASE problem_name = <<"d">> -> << "lib.txt" >>
      [] problem_name = <<"b">> -> << "lib.txt", "gone.txt" >>
      [] OTHER -> << >>

\* Files present under resources/ on the host: [dir, name].  gone.txt of
\* problem b and the dataset lost.csv of problem m are missing.
HostResources ==
    { [dir |-> <<"d">>, name |-> "lib.txt"],
      [dir |-> <<"b">>, name |-> "lib.txt"],
      [dir |-> << >>, name |-> "data.csv"] }

\* problem.generate_input(test_type): a fresh TestCase; serial tells the objects
\* of successive calls apart.
generate_input(test_type, serial) ==
    [ test_type |-> test_type.test_name,
      input |-> [serial |-> serial, a |-> test_type.a,
                 dataset_filename |-> test_type.dataset],
      output |-> test_type.a ]

\* tc.input_tuple(): the input rendered for the runner.
input_tuple_of(tc) ==
    IF Truthy(tc.input.dataset_filename)
        THEN << tc.input.a, tc.input.dataset_filename >>
        ELSE << tc.input.a >>

\* problem.verify_user_solution(input_tuple, user_answer): True, False, or an
\* exception on an answer it cannot parse.
verify_user_solution(input_tuple, user_answer) ==
    IF user_answer = "x" THEN "raised"
    ELSE IF user_answer = input_tuple[1] THEN "True"
    ELSE "False"

(***************************************************************************)
(* State.                                                                  *)
(***************************************************************************)
VARIABLES
    files,              \* paths existing in the engine's working directory
    launched,           \* containers launched by this process
    process,            \* [state, launches]: the judge process and its lxd.launch calls
    pc,                 \* where each request's on_post is
    payload,            \* req.media, << >> before the request arrives
    code_filename,      \* << >> or <<path>>
    problem,            \* the imported problem module's name
    resources,          \* the cleanup list
    res_i,              \* position of the loops over RESOURCES and resources
    test_cases,
    i,                  \* position of the loop over test_cases
    num_passes,
    test_case_details,
    resp,               \* [status, body]; body is << >> or <<resp_dict>>
    raised,             \* the exception that left on_post, or None
    runs,               \* the runner's invocations
    verifies            \* the verifier's invocations

vars == << files, launched, process, pc, payload, code_filename, problem, resources, res_i,
           test_cases, i, num_passes, test_case_details, resp, raised, runs, verifies >>

\* SubmitResource.__init__: the container's name.
container_name == "lovelace-pid"

Init ==
    /\ files = {}
    /\ launched = {}
    /\ process = [state |-> "starting", launches |-> 0]
    /\ pc = [r \in Reqs |-> "idle"]
    /\ payload = [r \in Reqs |-> << >>]
    /\ code_filename = [r \in Reqs |-> << >>]
    /\ problem = [r \in Reqs |-> << >>]
    /\ resources = [r \in Reqs |-> << >>]
    /\ res_i = [r \in Reqs |-> 1]
    /\ test_cases = [r \in Reqs |-> << >>]
    /\ i = [r \in Reqs |-> 1]
    /\ num_passes = [r \in Reqs |-> 0]
    /\ test_case_details = [r \in Reqs |-> << >>]
    /\ resp = [r \in Reqs |-> [status |-> None, body |-> << >>]]
    /\ raised = [r \in Reqs |-> None]
    /\ runs = [r \in Reqs |-> << >>]
    /\ verifies = [r \in Reqs |-> << >>]

\* An exception leaves on_post.  falcon.HTTPError carries its status to the
\* client; for any other exception the handler registered on the app only logs
\* it and leaves the response as it is.
error_handler(response, ex) ==
    IF ex = "HTTP_400" THEN [response EXCEPT !.status = "400"] ELSE response

Abort(r, ex) ==
    /\ pc' = [pc EXCEPT ![r] = "done"]
    /\ raised' = [raised EXCEPT ![r] = ex]
    /\ resp' = [resp EXCEPT ![r] = error_handler(resp[r], ex)]

\* Construct with the failure of lxd.launch ignored.
Construct_ServeAnyway ==
    /\ process.state = "starting"
    /\ \/ /\ launched' = launched \cup {container_name}
          /\ process' = [state |-> "serving", launches |-> process.launches + 1]
       \/ /\ process' = [state |-> "serving", launches |-> process.launches + 1]
          /\ UNCHANGED launched
    /\ UNCHANGED << files, pc, payload, code_filename, problem, resources, res_i,
                    test_cases, i, num_passes, test_case_details, resp, raised,
                    runs, verifies >>

\* Module level, lines 191-192: SubmitResource() is constructed, its __init__
\* launches the container (line 33), and only then is the route added.  When
\* lxd.launch raises, the import of the module fails and nothing is served.
Construct ==
    /\ process.state = "starting"
    /\ \/ /\ launched' = launched \cup {container_name}
          /\ process' = [state |-> "serving", launches |-> process.launches + 1]
       \/ /\ process' = [state |-> "failed", launches |-> process.launches + 1]
          /\ UNCHANGED launched
    /\ UNCHANGED << files, pc, payload, code_filename, problem, resources, res_i,
                    test_cases, i, num_passes, test_case_details, resp, raised,
                    runs, verifies >>

\* The request arrives: falcon calls on_post with a fresh response.
Receive(r) ==
    /\ pc[r] = "idle"
    /\ process.state = "serving"
    /\ \E p \in Payloads : payload' = [payload EXCEPT ![r] = << p >>]
    /\ resp' = [resp EXCEPT ![r] = [status |-> "200", body |-> << >>]]
    /\ pc' = [pc EXCEPT ![r] = "write_code"]
    /\ UNCHANGED << files, launched, process, code_filename, problem, resources, res_i,
                    test_cases, i, num_passes, test_case_details, raised, runs,
                    verifies >>

\* write_code_to_file's extension table.
Extension(language) == IF language = "python3" THEN ".py" ELSE None

\* base64.b64decode, then str(..., 'utf-8'): << >> when the text does not decode.
B64Decode(code) ==
    IF Len(code) = 2 /\ code[1] = "b64" THEN << code[2] >> ELSE << >>

\* util.write_str_to_file: a new file named after nothing but the call.
write_str_to_file(r, extension) == [base |-> r, ext |-> extension]

\* Path of a resource staged beside the code: os.path.join(cwd, name).
CwdPath(name) == [base |-> name, ext |-> ""]

\* on_post line 52: payload['code'], payload['language'], write_code_to_file.
WriteCode(r) ==
    /\ pc[r] = "write_code"
    /\ process.state = "serving"
    /\ LET p == payload[r][1] IN
        IF "code" \notin DOMAIN p
        THEN /\ Abort(r, "KeyError")
             /\ UNCHANGED << files, code_filename >>
        ELSE IF p.code = << >>
        THEN /\ Abort(r, "HTTP_400")
             /\ UNCHANGED << files, code_filename >>
        ELSE IF B64Decode(p.code) = << >>
        THEN /\ Abort(r, "binascii.Error")
             /\ UNCHANGED << files, code_filename >>
        ELSE LET f == write_str_to_file(r, Extension(p.language)) IN
             /\ files' = files \cup {f}
             /\ code_filename' = [code_filename EXCEPT ![r] = << f >>]
             /\ pc' = [pc EXCEPT ![r] = "import"]
             /\ UNCHANGED << raised, resp >>
    /\ UNCHANGED << launched, process, payload, problem, resources, res_i, test_cases, i,
                    num_passes, test_case_details, runs, verifies >>

\* payload['problem'].replace('-', '_')
Replace(key) == [k \in 1..Len(key) |-> IF key[k] = "-" THEN "_" ELSE key[k]]

\* on_post lines 55-68: the problem module is imported, or HTTP 400 is raised.
ImportProblem(r) ==
    /\ pc[r] = "import"
    /\ process.state = "serving"
    /\ LET problem_name == Replace(payload[r][1].problem) IN
        IF problem_name \notin ProblemModules
        THEN /\ Abort(r, "HTTP_400")
             /\ UNCHANGED << problem, resources, res_i >>
        ELSE /\ problem' = [problem EXCEPT ![r] = problem_name]
             /\ resources' = [resources EXCEPT ![r] = << >>]
             /\ res_i' = [res_i EXCEPT ![r] = 1]
             /\ pc' = [pc EXCEPT ![r] =
                    IF RESOURCES(problem_name) = << >> THEN "generate"
                    ELSE "copy_resource"]
             /\ UNCHANGED << raised, resp >>
    /\ UNCHANGED << files, launched, process, payload, code_filename, test_cases, i,
                    num_passes, test_case_details, runs, verifies >>

\* on_post lines 69-76: one turn of the loop over problem.RESOURCES.
CopyResource(r) ==
    /\ pc[r] = "copy_resource"
    /\ process.state = "serving"
    /\ LET resource_file_name == RESOURCES(problem[r])[res_i[r]]
           from_path == [dir |-> problem[r], name |-> resource_file_name]
           to_path == CwdPath(resource_file_name)
       IN
        IF from_path \notin HostResources
        THEN /\ Abort(r, "FileNotFoundError")
             /\ UNCHANGED << files, resources, res_i >>
        ELSE /\ files' = files \cup {to_path}
             /\ resources' = [resources EXCEPT ![r] = Append(@, to_path)]
             /\ res_i' = [res_i EXCEPT ![r] = @ + 1]
             /\ pc' = [pc EXCEPT ![r] =
                    IF res_i[r] = Len(RESOURCES(problem[r])) THEN "generate"
                    ELSE "copy_resource"]
             /\ UNCHANGED << raised, resp >>
    /\ UNCHANGED << launched, process, payload, code_filename, problem, test_cases, i,
                    num_passes, test_case_details, runs, verifies >>

\* GenLoop with `for j in range(1, test_type.multiplicity)`.
RECURSIVE GenLoop_SkipFirst(_, _, _, _)
GenLoop_SkipFirst(enum, t, j, cases) ==
    IF t > Len(enum) THEN cases
    ELSE IF j + 1 >= enum[t].multiplicity THEN GenLoop_SkipFirst(enum, t + 1, 0, cases)
    ELSE GenLoop_SkipFirst(enum, t, j + 1,
                 Append(cases, generate_input(enum[t], Len(cases) + 1)))

\* GenLoop with `test_cases.insert(0, ...)` for `test_cases.append(...)`.
RECURSIVE GenLoop_Prepend(_, _, _, _)
GenLoop_Prepend(enum, t, j, cases) ==
    IF t > Len(enum) THEN cases
    ELSE IF j >= enum[t].multiplicity THEN GenLoop_Prepend(enum, t + 1, 0, cases)
    ELSE GenLoop_Prepend(enum, t, j + 1,
                 << generate_input(enum[t], Len(cases) + 1) >> \o cases)

\* on_post lines 79-84: test type enum[t], its j-th generation onwards.
RECURSIVE GenLoop(_, _, _, _)
GenLoop(enum, t, j, cases) ==
    IF t > Len(enum) THEN cases
    ELSE IF j >= enum[t].multiplicity THEN GenLoop(enum, t + 1, 0, cases)
    ELSE GenLoop(enum, t, j + 1,
                 Append(cases, generate_input(enum[t], Len(cases) + 1)))

\* CasePc without the `if test_case_resource` block of lines 92-101.
CasePc_NoStage(cases, n) ==
    IF n > Len(cases) THEN "report" ELSE "run_case"

\* Where the loop over test_cases goes for case number n (lines 90-92).
CasePc(cases, n) ==
    IF n > Len(cases) THEN "report"
    ELSE IF Truthy(cases[n].input.dataset_filename) THEN "stage_case"
    ELSE "run_case"

\* on_post lines 78-88.
Generate(r) ==
    /\ pc[r] = "generate"
    /\ process.state = "serving"
    /\ LET cases == GenLoop(TEST_CASE_TYPE_ENUM(problem[r]), 1, 0, << >>) IN
        /\ test_cases' = [test_cases EXCEPT ![r] = cases]
        /\ pc' = [pc EXCEPT ![r] = CasePc(cases, 1)]
    /\ num_passes' = [num_passes EXCEPT ![r] = 0]
    /\ test_case_details' = [test_case_details EXCEPT ![r] = << >>]
    /\ i' = [i EXCEPT ![r] = 1]
    /\ UNCHANGED << files, launched, process, payload, code_filename, problem, resources,
                    res_i, resp, raised, runs, verifies >>

\* on_post lines 91-101: the case's dataset is copied beside the code.
StageCaseResource(r) ==
    /\ pc[r] = "stage_case"
    /\ process.state = "serving"
    /\ LET test_case_resource == test_cases[r][i[r]].input.dataset_filename
           resource_path == [dir |-> << >>, name |-> test_case_resource]
           destination_path == CwdPath(test_case_resource)
       IN
        IF resource_path \notin HostResources
        THEN /\ Abort(r, "FileNotFoundError")
             /\ UNCHANGED << files, resources >>
        ELSE /\ files' = files \cup {destination_path}
             /\ resources' = [resources EXCEPT ![r] = Append(@, destination_path)]
             /\ pc' = [pc EXCEPT ![r] = "run_case"]
             /\ UNCHANGED << raised, resp >>
    /\ UNCHANGED << launched, process, payload, code_filename, problem, res_i, test_cases,
                    i, num_passes, test_case_details, runs, verifies >>

\* What write_str_to_file wrote into a code file, and the language it is
\* written in.
FileSource(f) == B64Decode(payload[f.base][1].code)[1]

FileLanguage(f) == payload[f.base][1].language

Result(user_answer, exitStatus) ==
    [user_answer |-> user_answer, process_info |-> [exitStatus |-> exitStatus]]

\* PythonRunner().run(container, code_filename, input_tuple): the python
\* interpreter on the staged file, in the working directory fs.
PythonRunner_run(f, input_tuple, fs) ==
    IF FileLanguage(f) # "python3" THEN Result("", 1)
    ELSE IF /\ FileSource(f) \in {"reference", "crash"}
            /\ Len(input_tuple) = 2
            /\ CwdPath(input_tuple[2]) \notin fs
        THEN Result("", 1)
    ELSE CASE FileSource(f) = "reference" -> Result(input_tuple[1], 0)
           [] FileSource(f) = "print0" -> Result("0", 0)
           [] FileSource(f) = "silent" -> Result("", 0)
           [] FileSource(f) = "garbage" -> Result("x", 0)
           [] FileSource(f) = "crash" -> Result(input_tuple[1], 1)

\* case_details with `'passed': passed and process_info exited with 0`.
case_details_FailOnExit(tc, input_tuple, user_answer, passed, process_info) ==
    [ testCaseType |-> tc.test_type,
      inputString |-> input_tuple,
      outputString |-> user_answer,
      inputDict |-> tc.input,
      outputDict |-> tc.output,
      passed |-> (passed /\ process_info.exitStatus = 0),
      processInfo |-> process_info ]

\* on_post lines 124-132: the case's entry of testCaseDetails.
case_details(tc, input_tuple, user_answer, passed, process_info) ==
    [ testCaseType |-> tc.test_type,
      inputString |-> input_tuple,
      outputString |-> user_answer,
      inputDict |-> tc.input,
      outputDict |-> tc.output,
      passed |-> passed,
      processInfo |-> process_info ]

\* count_passes with the increment outside the `if passed`.
count_passes_Always(passes, passed) == passes + 1

\* on_post lines 118-119: `if passed: num_passes += 1`.
count_passes(passes, passed) == IF passed THEN passes + 1 ELSE passes

\* VerifyAndRecord with `passed = bool(user_answer) and verify_user_solution(...)`:
\* an empty answer fails without the verifier being asked.
VerifyAndRecord_SkipEmpty(r, tc, input_tuple, user_answer, process_info) ==
    LET verdict == IF user_answer = "" THEN "False"
                   ELSE verify_user_solution(input_tuple, user_answer)
        passed == (verdict = "True")
    IN
    /\ verifies' = [verifies EXCEPT ![r] =
            IF user_answer = "" THEN @
            ELSE Append(@,
                [serial |-> tc.input.serial, input_tuple |-> input_tuple,
                 user_answer |-> user_answer, verdict |-> verdict])]
    /\ IF verdict = "raised"
        THEN /\ Abort(r, "VerifierError")
             /\ UNCHANGED << num_passes, test_case_details, i >>
        ELSE /\ num_passes' = [num_passes EXCEPT ![r] = count_passes(@, passed)]
             /\ test_case_details' = [test_case_details EXCEPT ![r] = Append(@,
                    case_details(tc, input_tuple, user_answer, passed, process_info))]
             /\ i' = [i EXCEPT ![r] = @ + 1]
             /\ pc' = [pc EXCEPT ![r] = CasePc(test_cases[r], i[r] + 1)]
             /\ UNCHANGED << raised, resp >>

\* on_post lines 110-132: the verifier decides the case and the case is recorded.
VerifyAndRecord(r, tc, input_tuple, user_answer, process_info) ==
    LET verdict == verify_user_solution(input_tuple, user_answer)
        passed == (verdict = "True")
    IN
    /\ verifies' = [verifies EXCEPT ![r] = Append(@,
            [serial |-> tc.input.serial, input_tuple |-> input_tuple,
             user_answer |-> user_answer, verdict |-> verdict])]
    /\ IF verdict = "raised"
        THEN /\ Abort(r, "VerifierError")
             /\ UNCHANGED << num_passes, test_case_details, i >>
        ELSE /\ num_passes' = [num_passes EXCEPT ![r] = count_passes(@, passed)]
             /\ test_case_details' = [test_case_details EXCEPT ![r] = Append(@,
                    case_details(tc, input_tuple, user_answer, passed, process_info))]
             /\ i' = [i EXCEPT ![r] = @ + 1]
             /\ pc' = [pc EXCEPT ![r] = CasePc(test_cases[r], i[r] + 1)]
             /\ UNCHANGED << raised, resp >>

\* on_post lines 103-132: the case is run, verified and recorded.
RunCase(r) ==
    /\ pc[r] = "run_case"
    /\ process.state = "serving"
    /\ LET tc == test_cases[r][i[r]]
           input_tuple == input_tuple_of(tc)
           out == PythonRunner_run(code_filename[r][1], input_tuple, files)
       IN
        /\ runs' = [runs EXCEPT ![r] = Append(@,
                [runner |-> "PythonRunner", container |-> container_name,
                 file |-> code_filename[r][1], serial |-> tc.input.serial,
                 user_answer |-> out.user_answer])]
        /\ VerifyAndRecord(r, tc, input_tuple, out.user_answer, out.process_info)
    /\ UNCHANGED << files, launched, process, payload, code_filename, problem, resources,
                    res_i, test_cases >>

\* resp_dict_of with `'success': num_passes > 0`.
resp_dict_of_AnyPass(passes, num_cases, details) ==
    [ success |-> (passes > 0),
      numTestCases |-> num_cases,
      numTestCasesPassed |-> passes,
      testCaseDetails |-> details ]

\* on_post lines 136-141.
resp_dict_of(passes, num_cases, details) ==
    [ success |-> (passes = num_cases),
      numTestCases |-> num_cases,
      numTestCasesPassed |-> passes,
      testCaseDetails |-> details ]

\* on_post lines 134-145: the report is put into the response.
Report(r) ==
    /\ pc[r] = "report"
    /\ process.state = "serving"
    /\ resp' = [resp EXCEPT ![r] =
            [status |-> "200",
             body |-> << resp_dict_of(num_passes[r], Len(test_cases[r]),
                                      test_case_details[r]) >>]]
    /\ pc' = [pc EXCEPT ![r] = "delete_code"]
    /\ UNCHANGED << files, launched, process, payload, code_filename, problem, resources,
                    res_i, test_cases, i, num_passes, test_case_details, raised,
                    runs, verifies >>

\* on_post line 147: util.delete_file(code_filename).
DeleteCode(r) ==
    /\ pc[r] = "delete_code"
    /\ process.state = "serving"
    /\ files' = files \ {code_filename[r][1]}
    /\ res_i' = [res_i EXCEPT ![r] = 1]
    /\ pc' = [pc EXCEPT ![r] =
            IF resources[r] = << >> THEN "done" ELSE "remove_resource"]
    /\ UNCHANGED << launched, process, payload, code_filename, problem, resources,
                    test_cases, i, num_passes, test_case_details, resp, raised,
                    runs, verifies >>

\* on_post lines 150-152: one turn of the loop over resources; os.remove raises
\* on a path that is not there.
RemoveResource(r) ==
    /\ pc[r] = "remove_resource"
    /\ process.state = "serving"
    /\ LET file_path == resources[r][res_i[r]] IN
        IF file_path \notin files
        THEN /\ Abort(r, "FileNotFoundError")
             /\ UNCHANGED << files, res_i >>
        ELSE /\ files' = files \ {file_path}
             /\ res_i' = [res_i EXCEPT ![r] = @ + 1]
             /\ pc' = [pc EXCEPT ![r] =
                    IF res_i[r] = Len(resources[r]) THEN "done"
                    ELSE "remove_resource"]
             /\ UNCHANGED << raised, resp >>
    /\ UNCHANGED << launched, process, payload, code_filename, problem, resources,
                    test_cases, i, num_passes, test_case_details, runs, verifies >>

\* The process exits.  api.py registers no teardown (the __del__ of lines 39-45
\* is commented out), so nothing is stopped or deleted.
Shutdown ==
    /\ process.state = "serving"
    /\ process' = [process EXCEPT !.state = "exited"]
    /\ UNCHANGED << files, launched, pc, payload, code_filename, problem, resources,
                    res_i, test_cases, i, num_passes, test_case_details, resp,
                    raised, runs, verifies >>

Next ==
    \/ Construct
    \/ Shutdown
    \/ \E r \in Reqs :
        \/ Receive(r)
        \/ WriteCode(r)
        \/ ImportProblem(r)
        \/ CopyResource(r)
        \/ Generate(r)
        \/ StageCaseResource(r)
        \/ RunCase(r)
        \/ Report(r)
        \/ DeleteCode(r)
        \/ RemoveResource(r)

Spec == Init /\ [][Next]_vars

(***************************************************************************)
(* The properties.                                                         *)
(***************************************************************************)
Reported(r) == resp[r].body # << >>

ReportOf(r) == resp[r].body[1]

Submitted(r) == payload[r][1]

\* The paths request r staged: its code file and its cleanup list.
StagedBy(r) ==
    { code_filename[r][k] : k \in 1..Len(code_filename[r]) }
    \cup { resources[r][k] : k \in 1..Len(resources[r]) }

RECURSIVE SumMult(_)
SumMult(enum) ==
    IF enum = << >> THEN 0 ELSE enum[1].multiplicity + SumMult(Tail(enum))

\* The test type of the k-th case when the types are traversed in declared
\* order, each generated multiplicity times.
TypeAt(enum, k) ==
    CHOOSE t \in 1..Len(enum) :
        /\ SumMult(SubSeq(enum, 1, t - 1)) < k
        /\ k <= SumMult(SubSeq(enum, 1, t))

\* C1: once on_post has ended, however it ended, none of the files the
\* submission staged (code file, resource files) exists any more.
C1_NoStagedFileAfterEvaluate ==
    \A r \in Reqs : pc[r] = "done" => StagedBy(r) \cap files = {}

\* C2: at most one submission is between the start of staging and the end of
\* cleanup at any time.
C2_AtMostOneInFlight ==
    Cardinality({ r \in Reqs : pc[r] \notin {"idle", "write_code", "done"} }) <= 1

\* C3: every returned report has numTestCases equal to the sum of the
\* multiplicities of the problem's test case types, and as many details.
C3_CaseCountIsSumOfMultiplicities ==
    \A r \in Reqs : Reported(r) =>
        /\ ReportOf(r).numTestCases = SumMult(TEST_CASE_TYPE_ENUM(problem[r]))
        /\ Len(ReportOf(r).testCaseDetails) = ReportOf(r).numTestCases

\* A report of a problem with several types, one of them generated more than once.
C3_Witness ==
    \E r \in Reqs :
        /\ Reported(r)
        /\ ReportOf(r).numTestCases > Len(TEST_CASE_TYPE_ENUM(problem[r]))
        /\ Len(TEST_CASE_TYPE_ENUM(problem[r])) > 1

\* C4: in every returned report success is true exactly when every entry of
\* testCaseDetails passed, the report of an empty case list included.
C4_SuccessIffAllPassed ==
    \A r \in Reqs : Reported(r) =>
        (ReportOf(r).success <=>
            \A k \in 1..Len(ReportOf(r).testCaseDetails) :
                ReportOf(r).testCaseDetails[k].passed)

\* A successful report without cases beside a failed report with a passed case.
C4_Witness ==
    /\ \E r \in Reqs :
        /\ Reported(r)
        /\ ReportOf(r).testCaseDetails = << >>
        /\ ReportOf(r).success
    /\ \E r \in Reqs :
        /\ Reported(r)
        /\ ~ReportOf(r).success
        /\ \E k \in 1..Len(ReportOf(r).testCaseDetails) :
                ReportOf(r).testCaseDetails[k].passed

\* C5: the cases are generated type by type in declared order, multiplicity
\* times each; the k-th runner invocation is on the k-th generated case and the
\* k-th entry of testCaseDetails is its result; a report covers every case once.
C5_GenerationExecutionResultOrder ==
    \A r \in Reqs :
        LET enum == TEST_CASE_TYPE_ENUM(problem[r]) IN
        /\ \A k \in 1..Len(test_cases[r]) :
            /\ test_cases[r][k].input.serial = k
            /\ test_cases[r][k].test_type = enum[TypeAt(enum, k)].test_name
        /\ test_cases[r] # << >> => Len(test_cases[r]) = SumMult(enum)
        /\ Len(runs[r]) <= Len(test_cases[r])
        /\ \A k \in 1..Len(runs[r]) : runs[r][k].serial = k
        /\ Len(test_case_details[r]) <= Len(runs[r])
        /\ \A k \in 1..Len(test_case_details[r]) :
            /\ test_case_details[r][k].inputDict = test_cases[r][k].input
            /\ test_case_details[r][k].testCaseType = test_cases[r][k].test_type
            /\ test_case_details[r][k].outputString = runs[r][k].user_answer
        /\ Reported(r) =>
            /\ Len(runs[r]) = Len(test_cases[r])
            /\ ReportOf(r).testCaseDetails = test_case_details[r]
            /\ Len(test_case_details[r]) = Len(test_cases[r])

\* A report of three or more cases of more than one type.
C5_Witness ==
    \E r \in Reqs :
        /\ Reported(r)
        /\ Len(ReportOf(r).testCaseDetails) >= 3
        /\ ReportOf(r).testCaseDetails[1].testCaseType
                # ReportOf(r).testCaseDetails[3].testCaseType

\* The extension and the runner of a language (the solution files of
\* tests/test_api.py: *.py, *.js, *.jl, *.c).
LanguageExtension(language) ==
    CASE language = "python3" -> ".py"
      [] language = "javascript" -> ".js"
      [] language = "julia" -> ".jl"
      [] language = "c" -> ".c"

LanguageRunner(language) ==
    CASE language = "python3" -> "PythonRunner"
      [] language = "javascript" -> "JavascriptRunner"
      [] language = "julia" -> "JuliaRunner"
      [] language = "c" -> "CRunner"

\* C6: a reference solution tagged with a recognized language L is staged with
\* L's extension, run by L's runner, and reported with success true.
C6_ReferenceSolutionSucceedsInEveryLanguage ==
    \A r \in Reqs :
        ( /\ Reported(r)
          /\ Submitted(r).language \in RecognizedLanguages
          /\ Submitted(r).code = B64Encode("reference") )
        => /\ code_filename[r][1].ext = LanguageExtension(Submitted(r).language)
           /\ \A k \in 1..Len(runs[r]) :
                runs[r][k].runner = LanguageRunner(Submitted(r).language)
           /\ ReportOf(r).success

\* C7: for every recorded case the verifier was invoked exactly once, on the
\* case's input and the output the runner captured (an empty output too), and
\* the case's passed flag is the verifier's verdict; every runner invocation is
\* followed by one verifier invocation on its output, and a report's cases were
\* all verified.
C7_PassedIsTheVerifiersVerdict ==
    \A r \in Reqs :
        /\ \A k \in 1..Len(test_case_details[r]) :
            LET d == test_case_details[r][k]
                calls == { c \in 1..Len(verifies[r]) :
                            verifies[r][c].serial = d.inputDict.serial }
            IN
            /\ Cardinality(calls) = 1
            /\ \A c \in calls :
                /\ verifies[r][c].input_tuple = input_tuple_of(test_cases[r][k])
                /\ verifies[r][c].user_answer = runs[r][k].user_answer
                /\ d.outputString = runs[r][k].user_answer
                /\ d.passed = (verifies[r][c].verdict = "True")
        /\ Len(verifies[r]) = Len(runs[r])
        /\ \A k \in 1..Len(runs[r]) :
            /\ verifies[r][k].serial = runs[r][k].serial
            /\ verifies[r][k].user_answer = runs[r][k].user_answer
        /\ Reported(r) => Len(verifies[r]) = Len(test_cases[r])

\* A case with empty captured output that the verifier was asked about and accepted.
C7_Witness ==
    \E r \in Reqs : \E k \in 1..Len(test_case_details[r]) :
        /\ test_case_details[r][k].outputString = ""
        /\ test_case_details[r][k].passed
        /\ \E c \in 1..Len(verifies[r]) :
            /\ verifies[r][c].serial = k
            /\ verifies[r][c].user_answer = ""

\* C8: when the verifier raises on a case, the exception does not leave on_post:
\* the case is recorded as failed and a report covering every case is returned.
C8_VerifierExceptionContained ==
    \A r \in Reqs :
        ( /\ pc[r] = "done"
          /\ \E c \in 1..Len(verifies[r]) : verifies[r][c].verdict = "raised" )
        => /\ raised[r] # "VerifierError"
           /\ Reported(r)
           /\ Len(test_case_details[r]) = Len(test_cases[r])

C10_MissingCodeIsRejectedWith400 ==
    \A r \in Reqs :
        (pc[r] = "done" /\ "code" \notin DOMAIN Submitted(r))
        => /\ resp[r].status = "400"
           /\ test_cases[r] = << >>
           /\ runs[r] = << >>

\* C11: a submission whose language tag is not recognized is answered with HTTP
\* 400; no code file is staged and no test case is generated or executed for it.
C11_UnknownLanguageIsRejectedWith400 ==
    \A r \in Reqs :
        ( /\ payload[r] # << >>
          /\ Submitted(r).language \notin RecognizedLanguages )
        => /\ code_filename[r] = << >>
           /\ test_cases[r] = << >>
           /\ runs[r] = << >>
           /\ pc[r] = "done" => resp[r].status = "400"

\* C12: every submission whose problem key, '-' replaced by '_', names no
\* problem module is answered with HTTP 400, and no test case is generated or
\* executed for it.
C12_UnknownProblemIsRejectedWith400 ==
    \A r \in Reqs :
        ( /\ pc[r] = "done"
          /\ Replace(Submitted(r).problem) \notin ProblemModules )
        => /\ resp[r].status = "400"
           /\ test_cases[r] = << >>
           /\ runs[r] = << >>

\* The copy of one of the problem's RESOURCES raised: on_post ended with the
\* exception before the loop of lines 69-76 had staged them all.
InitialStagingFailed(r) ==
    /\ pc[r] = "done"
    /\ raised[r] = "FileNotFoundError"
    /\ problem[r] # << >>
    /\ Len(resources[r]) < Len(RESOURCES(problem[r]))

\* C13: when staging one of the problem's RESOURCES fails, no test case is
\* generated or executed and the client receives HTTP 500, not a report or a
\* success status.
C13_ResourceStagingFailureIs500 ==
    \A r \in Reqs : InitialStagingFailed(r) =>
        /\ resp[r].status = "500"
        /\ resp[r].body = << >>
        /\ test_cases[r] = << >>
        /\ runs[r] = << >>

\* The cases of r whose dataset is not on the host.
LostCases(r) ==
    { k \in 1..Len(test_cases[r]) :
        /\ Truthy(test_cases[r][k].input.dataset_filename)
        /\ [dir |-> << >>, name |-> test_cases[r][k].input.dataset_filename]
                \notin HostResources }

\* C14: when staging a case's dataset fails, that case alone is recorded as
\* failed: every other case is still run and verified, and a report covering
\* all cases is returned.
C14_DatasetStagingFailureFailsOnlyThatCase ==
    \A r \in Reqs :
        (pc[r] = "done" /\ LostCases(r) # {}) =>
            /\ Reported(r)
            /\ Len(ReportOf(r).testCaseDetails) = Len(test_cases[r])
            /\ \A k \in LostCases(r) : ~ReportOf(r).testCaseDetails[k].passed
            /\ \A k \in (1..Len(test_cases[r])) \ LostCases(r) :
                \E n \in 1..Len(verifies[r]) : verifies[r][n].serial = k

\* C15: after the judge process has shut down, no sandbox it launched remains.
C15_ShutdownRemovesTheSandbox ==
    process.state = "exited" => launched = {}

\* The paths r has staged and not yet removed.
Pending(r) ==
    IF pc[r] \in {"idle", "write_code", "done"} THEN {}
    ELSE IF pc[r] = "remove_resource"
        THEN { resources[r][k] : k \in res_i[r]..Len(resources[r]) }
    ELSE StagedBy(r)

\* C16: two submissions in flight never hold the same staged path, so neither
\* overwrites or removes a file the other has staged and not yet cleaned.
C16_InFlightSubmissionsStageDistinctPaths ==
    \A r1, r2 \in Reqs : r1 # r2 => Pending(r1) \cap Pending(r2) = {}

\* C17: an error while removing one staged path does not leave on_post, and the
\* other paths of the cleanup list are removed all the same.
C17_CleanupErrorsAreSwallowed ==
    \A r \in Reqs :
        (pc[r] = "done" /\ Reported(r)) =>
            /\ raised[r] = None
            /\ \A k \in 1..Len(resources[r]) :
                resources[r][k] \in files =>
                    \E q \in Reqs \ {r} : resources[r][k] \in Pending(q)

\* on_post is past the generation of lines 78-84.
Generated(r) ==
    \/ pc[r] \in {"stage_case", "run_case", "report", "delete_code", "remove_resource"}
    \/ test_cases[r] # << >>

\* C18: once the cases are generated, the code file and every file of the
\* problem's RESOURCES have been staged, in RESOURCES' order; every case the
\* runner was invoked on had its dataset staged after them and before the run.
C18_StagedBeforeCases ==
    \A r \in Reqs :
        /\ Generated(r) =>
            /\ code_filename[r] # << >>
            /\ Len(resources[r]) >= Len(RESOURCES(problem[r]))
            /\ \A n \in 1..Len(RESOURCES(problem[r])) :
                resources[r][n] = CwdPath(RESOURCES(problem[r])[n])
        /\ \A k \in 1..Len(runs[r]) :
            Truthy(test_cases[r][k].input.dataset_filename) =>
                \E n \in (Len(RESOURCES(problem[r])) + 1)..Len(resources[r]) :
                    resources[r][n] = CwdPath(test_cases[r][k].input.dataset_filename)

\* A case with a dataset has been run for a problem that has RESOURCES.
C18_Witness ==
    \E r \in Reqs : \E k \in 1..Len(runs[r]) :
        /\ Truthy(test_cases[r][k].input.dataset_filename)
        /\ RESOURCES(problem[r]) # << >>

\* C19: lxd.launch is called once, at construction; no request is handled
\* before it has succeeded; every runner invocation names the launched sandbox.
C19_SandboxLaunchedOnceBeforeServing ==
    /\ process.launches <= 1
    /\ process.state \in {"serving", "exited"} =>
        (process.launches = 1 /\ launched = {container_name})
    /\ \A r \in Reqs :
        /\ pc[r] # "idle" => (process.launches = 1 /\ launched # {})
        /\ \A k \in 1..Len(runs[r]) : runs[r][k].container \in launched

\* Both requests have had cases run.
C19_Witness ==
    \A r \in Reqs : Len(runs[r]) >= 1 /\ runs[r][1].container = container_name

\* The recorded cases of r that passed.
PassedCases(r) ==
    { k \in 1..Len(test_case_details[r]) : test_case_details[r][k].passed }

\* C20: the pass counter is the number of recorded cases that passed, at every
\* point of the loop and in the report; so it lies between 0 and numTestCases
\* and is below numTestCases exactly when some case failed.
C20_PassCounterCountsPassedCases ==
    \A r \in Reqs :
        /\ num_passes[r] = Cardinality(PassedCases(r))
        /\ Reported(r) =>
            /\ ReportOf(r).numTestCasesPassed = Cardinality(PassedCases(r))
            /\ 0 <= ReportOf(r).numTestCasesPassed
            /\ ReportOf(r).numTestCasesPassed <= ReportOf(r).numTestCases
            /\ (ReportOf(r).numTestCasesPassed < ReportOf(r).numTestCases
                <=> \E k \in 1..Len(ReportOf(r).testCaseDetails) :
                        ~ReportOf(r).testCaseDetails[k].passed)

\* A report with some cases passed and some failed.
C20_Witness ==
    \E r \in Reqs :
        /\ Reported(r)
        /\ 0 < ReportOf(r).numTestCasesPassed
        /\ ReportOf(r).numTestCasesPassed < ReportOf(r).numTestCases

====
